---- MODULE Spec2Model ----
(***************************************************************************)
(* betterdetex: a chain of regular-expression substitutions that strips    *)
(* TeX markup from a text (detex), a chapter sorter (_sort_chapters) and a *)
(* file loop (main).  Texts are strings; a character is a string of        *)
(* length one.  The substitutions are computed by a backtracking matcher   *)
(* with the priorities of Python's re module, so every rule of detex is    *)
(* the pattern of the source, written as a sequence of pattern nodes.      *)
(***************************************************************************)
EXTENDS Integers, Sequences, FiniteSets, TLC

VARIABLES
    text,       \* detex: the argument of the first call
    steps,      \* detex: the value of its variable text after each statement of the last call
    out,        \* detex: the value returned by the last call
    prev,       \* detex: the value returned by the call before the last
    passes,     \* detex: how many times it has been applied, each time to its own result
    files,      \* _sort_chapters: the collection of filenames it is given
    chapters,   \* _sort_chapters: the list it returns
    sorted,     \* _sort_chapters: whether it has returned
    arg,        \* main: its argument paths, a single path or a list of paths
    threshold,  \* main: its argument threshold, the fraction num/den
    paths,      \* main: the list it iterates over
    idx,        \* main: how many entries of paths the loop has processed
    fs,         \* the file system: the content of every file, by path
    log,        \* what main has done to the file system and printed, in order
    pc          \* main: "start", "loop", "done", or "raised" when open() has raised

detexVars == <<text, steps, out, prev, passes>>
sortVars  == <<files, chapters, sorted>>
mainVars  == <<arg, threshold, paths, idx, fs, log, pc>>
vars      == <<detexVars, sortVars, mainVars>>

-----------------------------------------------------------------------------
(* Characters                                                              *)

Ch(s, i) == SubSeq(s, i, i)

CharsOf(s) == {Ch(s, i) : i \in 1..Len(s)}

LowerAlphabet == "abcdefghijklmnopqrstuvwxyz"
UpperAlphabet == "ABCDEFGHIJKLMNOPQRSTUVWXYZ"

az == CharsOf(LowerAlphabet)
AZ == CharsOf(UpperAlphabet)

\* str.lower() on one character, as re.IGNORECASE folds it
LowerOf == [c \in AZ |->
              Ch(LowerAlphabet, CHOOSE i \in 1..Len(UpperAlphabet) : Ch(UpperAlphabet, i) = c)]

Fold(c, icase) == IF icase /\ c \in AZ THEN LowerOf[c] ELSE c

-----------------------------------------------------------------------------
(* Pattern nodes: a pattern is a sequence of nodes                         *)

Lit(s)       == [i \in 1..Len(s) |-> [t |-> "lit", c |-> Ch(s, i)]]
OneOf(S)     == << [t |-> "set", s |-> S] >>
Dot          == << [t |-> "any"] >>
Star(b)      == << [t |-> "star", body |-> b, greedy |-> TRUE] >>
Lazy(b)      == << [t |-> "star", body |-> b, greedy |-> FALSE] >>
Plus(b)      == b \o Star(b)
Opt(b)       == << [t |-> "opt", body |-> b] >>
Alt(as)      == << [t |-> "alt", alts |-> as] >>
Group(k, b)  == << [t |-> "open", g |-> k] >> \o b \o << [t |-> "close", g |-> k] >>
Backref(k)   == << [t |-> "backref", g |-> k] >>
NotAhead(b)  == << [t |-> "nla", body |-> b] >>

\* flags of a substitution
NoFlags    == [dotall |-> FALSE, icase |-> FALSE]
DOTALL     == [dotall |-> TRUE,  icase |-> FALSE]
IGNORECASE == [dotall |-> FALSE, icase |-> TRUE]
DOTALL_IGNORECASE == [dotall |-> TRUE, icase |-> TRUE]

NoCaps == << <<0, 0>>, <<0, 0>> >>
NoMatch == [ok |-> FALSE, end |-> 0, caps |-> NoCaps]

GroupText(s, caps, k) ==
    IF caps[k][1] = 0 THEN "" ELSE SubSeq(s, caps[k][1], caps[k][2] - 1)

\* whether the text w of a group stands in s at pos, up to case when icase
RefersAt(s, pos, w, icase) ==
    /\ pos + Len(w) - 1 <= Len(s)
    /\ \A i \in 1..Len(w) : Fold(Ch(s, pos + i - 1), icase) = Fold(Ch(w, i), icase)

Min(S) == CHOOSE m \in S : \A x \in S : m <= x
Max(S) == CHOOSE m \in S : \A x \in S : x <= m

\* whether the one-character node n accepts the character c
Accepts(n, c, fl) ==
    CASE n.t = "lit" -> Fold(c, fl.icase) = Fold(n.c, fl.icase)
      [] n.t = "set" -> c \in n.s \/ Fold(c, fl.icase) \in n.s
      [] n.t = "any" -> fl.dotall \/ c # "\n"
      [] OTHER       -> FALSE

OneChar(b) == Len(b) = 1 /\ b[1].t \in {"lit", "set", "any"}

\* the least element of S, or otherwise when S is empty
MinOr(S, otherwise) == IF S = {} THEN otherwise ELSE Min(S)

\* how many characters of s from pos on the one-character node n accepts in a row
Run(n, s, pos, fl) ==
    MinOr({q \in pos..Len(s) : ~Accepts(n, Ch(s, q), fl)}, Len(s) + 1) - pos

\* whether the first node of `nodes`, when it is a one-character node,
\* accepts the character of s at pos
CanStart(nodes, s, pos, fl) ==
    (nodes # <<>> /\ nodes[1].t \in {"lit", "set", "any"})
      => (pos <= Len(s) /\ Accepts(nodes[1], Ch(s, pos), fl))

\* the first of two attempts that matches
OrElse(first, second) == IF first.ok THEN first ELSE second

\* the count a repetition settles on, among those after which the rest of
\* the pattern matches: the largest when greedy, the smallest when lazy;
\* -1 when there is none
Settle(counts, greedy) ==
    IF counts = {} THEN -1 ELSE IF greedy THEN Max(counts) ELSE Min(counts)

\* The match of pattern `nodes` in s that starts at pos and is the first in
\* the backtracking order: greedy repetition tries one more repetition
\* before the rest of the pattern, lazy repetition the rest first, an
\* alternation its branches from left to right.  A repetition of a single
\* character node is tried count by count (the longest count first when
\* greedy, the shortest first when lazy), which is the same order.
RECURSIVE Match(_, _, _, _, _)
RECURSIVE MatchAfter(_, _, _, _, _, _)

Match(nodes, s, pos, caps, fl) ==
    IF nodes = <<>> THEN [ok |-> TRUE, end |-> pos, caps |-> caps]
    ELSE
      CASE nodes[1].t \in {"lit", "set", "any"} ->
             IF pos <= Len(s) /\ Accepts(nodes[1], Ch(s, pos), fl)
             THEN Match(Tail(nodes), s, pos + 1, caps, fl) ELSE NoMatch
        [] nodes[1].t = "star" /\ OneChar(nodes[1].body) ->
             MatchAfter(Tail(nodes), s, pos, caps, fl,
                        Settle({k \in 0..Run(nodes[1].body[1], s, pos, fl) :
                                  /\ CanStart(Tail(nodes), s, pos + k, fl)
                                  /\ Match(Tail(nodes), s, pos + k, caps, fl).ok},
                               nodes[1].greedy))
        [] nodes[1].t = "star" /\ ~OneChar(nodes[1].body) ->
             IF nodes[1].greedy
             THEN OrElse(Match(nodes[1].body \o nodes, s, pos, caps, fl),
                         Match(Tail(nodes), s, pos, caps, fl))
             ELSE OrElse(Match(Tail(nodes), s, pos, caps, fl),
                         Match(nodes[1].body \o nodes, s, pos, caps, fl))
        [] nodes[1].t = "opt" ->
             OrElse(Match(nodes[1].body \o Tail(nodes), s, pos, caps, fl),
                    Match(Tail(nodes), s, pos, caps, fl))
        [] nodes[1].t = "alt" ->
             IF nodes[1].alts = <<>> THEN NoMatch
             ELSE OrElse(Match(Head(nodes[1].alts) \o Tail(nodes), s, pos, caps, fl),
                         Match(Alt(Tail(nodes[1].alts)) \o Tail(nodes), s, pos, caps, fl))
        [] nodes[1].t = "open" ->
             Match(Tail(nodes), s, pos, [caps EXCEPT ![nodes[1].g] = <<pos, pos>>], fl)
        [] nodes[1].t = "close" ->
             Match(Tail(nodes), s, pos, [caps EXCEPT ![nodes[1].g][2] = pos], fl)
        [] nodes[1].t = "backref" ->
             MatchAfter(Tail(nodes), s, pos, caps, fl,
                        IF /\ caps[nodes[1].g][1] # 0
                           /\ RefersAt(s, pos, GroupText(s, caps, nodes[1].g), fl.icase)
                        THEN Len(GroupText(s, caps, nodes[1].g)) ELSE -1)
        [] nodes[1].t = "nla" ->
             IF Match(nodes[1].body, s, pos, caps, fl).ok THEN NoMatch
             ELSE Match(Tail(nodes), s, pos, caps, fl)

\* the match of `nodes` after the k characters that the node before them
\* took; none when k is -1
MatchAfter(nodes, s, pos, caps, fl, k) ==
    IF k < 0 THEN NoMatch ELSE Match(nodes, s, pos + k, caps, fl)

\* a replacement template: literal pieces and group references (\1, \2)
Txt(s) == [k |-> "txt", v |-> s]
Ref(g) == [k |-> "ref", v |-> g]

RECURSIVE Expand(_, _, _)
Expand(repl, s, caps) ==
    IF repl = <<>> THEN ""
    ELSE (IF repl[1].k = "txt" THEN repl[1].v ELSE GroupText(s, caps, repl[1].v))
           \o Expand(Tail(repl), s, caps)

\* the positions of s where a match of re can start: those whose character
\* the first node of re accepts, when that node is a one-character node
Candidates(re, s, fl) ==
    IF re[1].t \in {"lit", "set", "any"}
    THEN {p \in 1..Len(s) : Accepts(re[1], Ch(s, p), fl)}
    ELSE 1..Len(s)

\* the positions of s where re matches
Starts(re, s, fl) == {p \in Candidates(re, s, fl) : Match(re, s, p, NoCaps, fl).ok}

\* s from pos on with every non-overlapping match that starts at one of
\* `starts`, leftmost first, replaced; the search goes on where the match ended
RECURSIVE SubFrom(_, _, _, _, _, _)
RECURSIVE SubMatch(_, _, _, _, _, _, _, _)

SubFrom(re, repl, s, pos, fl, starts) ==
    IF \A p \in starts : p < pos THEN SubSeq(s, pos, Len(s))
    ELSE SubMatch(re, repl, s, pos, fl, starts,
                  Min({p \in starts : p >= pos}),
                  Match(re, s, Min({p \in starts : p >= pos}), NoCaps, fl))

\* the match m of re at p replaced
SubMatch(re, repl, s, pos, fl, starts, p, m) ==
    SubSeq(s, pos, p - 1) \o Expand(repl, s, m.caps)
      \o SubFrom(re, repl, s, m.end, fl, starts)

\* re.sub(pattern, repl, s, flags); no pattern of detex matches the empty string
ReSub(re, repl, s, fl) == SubFrom(re, repl, s, 1, fl, Starts(re, s, fl))

-----------------------------------------------------------------------------
(* detex                                                                   *)

\* The same substitution with count=1: only the first comment goes.
DeleteFirstComment(s) ==
    IF Starts(Lit("%") \o Star(Dot), s, NoFlags) = {} THEN s
    ELSE SubSeq(s, 1, Min(Starts(Lit("%") \o Star(Dot), s, NoFlags)) - 1)
         \o SubSeq(s, Match(Lit("%") \o Star(Dot), s,
                            Min(Starts(Lit("%") \o Star(Dot), s, NoFlags)),
                            NoCaps, NoFlags).end,
                   Len(s))

\* re.sub("%.*", "", text)
DeleteComments(s) == ReSub(Lit("%") \o Star(Dot), <<>>, s, NoFlags)

\* re.sub(r"(\$)|(\|\()|(\|\))", "", text)
RemoveCharacters(s) ==
    ReSub(Alt(<< Lit("$"), Lit("|("), Lit("|)") >>), <<>>, s, NoFlags)

\* re.sub(r"\\author\{.*?(\\affiliation\{.*?\}.*?)*\}", "", text, flags=re.DOTALL)
RemoveAuthor(s) ==
    ReSub(Lit("\\author{") \o Lazy(Dot)
            \o Star(Lit("\\affiliation{") \o Lazy(Dot) \o Lit("}") \o Lazy(Dot))
            \o Lit("}"),
          <<>>, s, DOTALL)

\* re.sub(r"\\IfFileExists\{.*?\}\{\}", "", text, flags=re.DOTALL)
RemoveIfFileExists(s) ==
    ReSub(Lit("\\IfFileExists{") \o Lazy(Dot) \o Lit("}{}"), <<>>, s, DOTALL)

\* re.sub(r"\\hyp\{\}", "-", text)
ReplaceHyp(s) == ReSub(Lit("\\hyp{}"), << Txt("-") >>, s, NoFlags)

\* re.sub(r"\\'e", "é", text)
ReplaceAccent(s) == ReSub(Lit("\\'e"), << Txt("é") >>, s, NoFlags)

openers == << "document", "otherlanguage", "refcontext", "refsection" >>

\* for com in openers: re.sub(r"\\begin\{" + com + r"\}", "", text)
RECURSIVE RemoveOpeners(_, _)
RemoveOpeners(coms, s) ==
    IF coms = <<>> THEN s
    ELSE RemoveOpeners(Tail(coms),
           ReSub(Lit("\\begin{") \o Lit(Head(coms)) \o Lit("}"), <<>>, s, NoFlags))

to_preserve == << "quote", "quotation" >>

\* for env in to_preserve:
\*   re.sub(r"\\begin\{" + env + r"\}(.*?)\\end( )?\{" + env + r"\}", "\\1", text, flags=re.DOTALL)
RECURSIVE PreserveQuotes(_, _)
PreserveQuotes(envs, s) ==
    IF envs = <<>> THEN s
    ELSE PreserveQuotes(Tail(envs),
           ReSub(Lit("\\begin{") \o Lit(Head(envs)) \o Lit("}")
                   \o Group(1, Lazy(Dot))
                   \o Lit("\\end") \o Opt(Group(2, Lit(" ")))
                   \o Lit("{") \o Lit(Head(envs)) \o Lit("}"),
                 << Ref(1) >>, s, DOTALL))

\* re.sub(r"\\begin\{(?P<env>[a-z]+)\}.*?\\end( )?\{(?P=env)\}", "", text,
\*        flags=re.DOTALL|re.IGNORECASE)
DeleteEnvironments(s) ==
    ReSub(Lit("\\begin{") \o Group(1, Plus(OneOf(az))) \o Lit("}")
            \o Lazy(Dot)
            \o Lit("\\end") \o Opt(Group(2, Lit(" ")))
            \o Lit("{") \o Backref(1) \o Lit("}"),
          <<>>, s, DOTALL_IGNORECASE)

\* re.sub(r"\\ea.*?\\z", "", text, flags=re.DOTALL)
DeleteExamples(s) ==
    ReSub(Lit("\\ea") \o Lazy(Dot) \o Lit("\\z"), <<>>, s, DOTALL)

to_replace == << "textbf", "textsc", "textit", "textrm", "ili", "isi",
                 "emph", "enquote", "footnote" >>

\* for com in to_replace: re.sub(r"\\" + com + r"\{(.*?)\}", "\\1", text)
RECURSIVE ReplaceCommands(_, _)
ReplaceCommands(coms, s) ==
    IF coms = <<>> THEN s
    ELSE ReplaceCommands(Tail(coms),
           ReSub(Lit("\\") \o Lit(Head(coms)) \o Lit("{")
                   \o Group(1, Lazy(Dot)) \o Lit("}"),
                 << Ref(1) >>, s, NoFlags))

to_replace_line == << "title", "abstract", "caption", "chapter" >>

\* for com in to_replace_line:
\*   re.sub(r"\\" + com + r"(\*)?\{(.*)\}(?!\})", "\\n\\2 ", text)
RECURSIVE ReplaceLines(_, _)
ReplaceLines(coms, s) ==
    IF coms = <<>> THEN s
    ELSE ReplaceLines(Tail(coms),
           ReSub(Lit("\\") \o Lit(Head(coms)) \o Opt(Group(1, Lit("*")))
                   \o Lit("{") \o Group(2, Star(Dot)) \o Lit("}")
                   \o NotAhead(Lit("}")),
                 << Txt("\n"), Ref(2), Txt(" ") >>, s, NoFlags))

\* re.sub(r"\\[sub]*section[\*]?\{(.*?)\}", "\\n\\n\\1\\n", text)
ReplaceSections(s) ==
    ReSub(Lit("\\") \o Star(OneOf({"s", "u", "b"})) \o Lit("section")
            \o Opt(OneOf({"*"})) \o Lit("{") \o Group(1, Lazy(Dot)) \o Lit("}"),
          << Txt("\n\n"), Ref(1), Txt("\n") >>, s, NoFlags)

\* re.sub(r"\\title\[(.*?)\]", "\\1", text, flags=re.DOTALL)
ReplaceShortTitle(s) ==
    ReSub(Lit("\\title[") \o Group(1, Lazy(Dot)) \o Lit("]"),
          << Ref(1) >>, s, DOTALL)

to_delete == << "section", "sections", "figure", "figures", "table", "tables" >>

\* for com in to_delete:
\*   re.sub(com + r"( |~)\\[a-z]*ref\{.*?\}", "", text, flags=re.IGNORECASE)
RECURSIVE DeleteCrossreferences(_, _)
DeleteCrossreferences(coms, s) ==
    IF coms = <<>> THEN s
    ELSE DeleteCrossreferences(Tail(coms),
           ReSub(Lit(Head(coms)) \o Group(1, Alt(<< Lit(" "), Lit("~") >>))
                   \o Lit("\\") \o Star(OneOf(az)) \o Lit("ref{")
                   \o Lazy(Dot) \o Lit("}"),
                 <<>>, s, IGNORECASE))

\* re.sub(r"\\[a-z]+(\[.*?\])?(\{.*?\})+", "", text, flags=re.IGNORECASE)
DeleteCommandsWithArguments(s) ==
    ReSub(Lit("\\") \o Plus(OneOf(az))
            \o Opt(Group(1, Lit("[") \o Lazy(Dot) \o Lit("]")))
            \o Plus(Group(2, Lit("{") \o Lazy(Dot) \o Lit("}"))),
          <<>>, s, IGNORECASE)

\* The same deletion with the flag left out: a token that starts with a
\* capital letter stays.
DeleteLowerCaseCommands(s) ==
    ReSub(Lit("\\") \o Plus(OneOf(az)), <<>>, s, NoFlags)

\* re.sub(r"\\[a-z]+", "", text, flags=re.IGNORECASE)
DeleteCommands(s) ==
    ReSub(Lit("\\") \o Plus(OneOf(az)), <<>>, s, IGNORECASE)

\* re.sub(r"\n( |\t)*(\{|\}|\])|(\]|\}|\{)\n", " ", text)
ReplaceSingleBraces(s) ==
    ReSub(Alt(<< Lit("\n") \o Star(OneOf({" ", "\t"})) \o OneOf({"{", "}", "]"}),
                 OneOf({"]", "}", "{"}) \o Lit("\n") >>),
          << Txt(" ") >>, s, NoFlags)

\* re.sub(r"\n\n\n", "\n", text)
ReduceWhitespace(s) == ReSub(Lit("\n\n\n"), << Txt("\n") >>, s, NoFlags)

\* the statements of detex run so far, and the next one run on the result
\* of the last
Then(ts, Statement(_)) == Append(ts, Statement(ts[Len(ts)]))

\* The two loops placed after the generic environment deletion instead of
\* before it.
OpenersLate(s) == RemoveOpeners(openers, DeleteEnvironments(s))
QuotesLate(s)  == PreserveQuotes(to_preserve, DeleteEnvironments(s))

Openers(s)         == RemoveOpeners(openers, s)
Quotes(s)          == PreserveQuotes(to_preserve, s)
Commands(s)        == ReplaceCommands(to_replace, s)
Lines(s)           == ReplaceLines(to_replace_line, s)
Crossreferences(s) == DeleteCrossreferences(to_delete, s)

\* The value of the variable text of detex after each of its statements,
\* in the order of the source.
Statements(s) ==
    Then(Then(Then(Then(Then(Then(Then(Then(Then(Then(Then(Then(Then(Then(Then(Then(Then(Then(
      << DeleteComments(s) >>,
      RemoveCharacters),
      RemoveAuthor),
      RemoveIfFileExists),
      ReplaceHyp),
      ReplaceAccent),
      Openers),
      Quotes),
      DeleteEnvironments),
      DeleteExamples),
      Commands),
      Lines),
      ReplaceSections),
      ReplaceShortTitle),
      Crossreferences),
      DeleteCommandsWithArguments),
      DeleteCommands),
      ReplaceSingleBraces),
      ReduceWhitespace)

Last(ts) == ts[Len(ts)]

\* return text
detex(s) == Last(Statements(s))

-----------------------------------------------------------------------------
(* Texts and what the properties say about them                            *)

RECURSIVE Concat(_)
Concat(fs_) == IF fs_ = <<>> THEN "" ELSE Head(fs_) \o Concat(Tail(fs_))

\* every concatenation of at most n of the fragments F
Sentences(F, n) == UNION {{Concat(f) : f \in [1..k -> F]} : k \in 0..n}

\* whether the word w stands in s at position i
At(s, i, w) == i >= 1 /\ i + Len(w) - 1 <= Len(s) /\ SubSeq(s, i, i + Len(w) - 1) = w

Contains(s, w) == w = "" \/ \E i \in 1..Len(s) : At(s, i, w)

Before(s, i) == SubSeq(s, 1, i - 1)
From(s, i)   == SubSeq(s, i, Len(s))

\* s without the characters of the set S
Without(s, S) == ReSub(OneOf(S), <<>>, s, NoFlags)

MarkupChars == {"\\", "%", "$", "|", "{", "}", "[", "]"}

\* markup-free text
Plain(s) == CharsOf(s) \cap MarkupChars = {}

SameUpToLineBreaks(a, b) == Without(a, {"\n"}) = Without(b, {"\n"})

Whitespace == {" ", "\t", "\n"}

BeginMarker(name) == "\\begin{" \o name \o "}"
EndMarker(name)   == "\\end{" \o name \o "}"

-----------------------------------------------------------------------------
(* The calls of detex                                                      *)

NoSteps == <<>>

InitDetex(inputs) ==
    /\ text \in inputs
    /\ steps = NoSteps
    /\ out = text
    /\ prev = text
    /\ passes = 0

\* the components that a specification does not run
IdleDetex ==
    /\ text = "" /\ steps = NoSteps /\ out = "" /\ prev = "" /\ passes = 0
IdleSort ==
    /\ files = {} /\ chapters = <<>> /\ sorted = FALSE
IdleMain ==
    /\ arg = [list |-> TRUE, str |-> "", items |-> <<>>]
    /\ threshold = [num |-> 1, den |-> 2]
    /\ paths = <<>> /\ idx = 0 /\ fs = <<>> /\ log = <<>> /\ pc = "done"

\* detexed = detex(text)
Detex ==
    /\ passes = 0
    /\ steps' = Statements(text)
    /\ out' = Last(steps')
    /\ prev' = out
    /\ passes' = 1
    /\ UNCHANGED <<text, sortVars, mainVars>>

\* detex(detexed): the transform applied to its own result
DetexAgain ==
    /\ passes = 1
    /\ steps' = Statements(out)
    /\ out' = Last(steps')
    /\ prev' = out
    /\ passes' = 2
    /\ UNCHANGED <<text, sortVars, mainVars>>

NextOnce  == Detex
NextTwice == Detex \/ DetexAgain

-----------------------------------------------------------------------------
(* _sort_chapters                                                          *)

\* the characters of file names, in the order of their code points
CodePoints == "-.0123456789ABCDEFGHIJKLMNOPQRSTUVWXYZ_abcdefghijklmnopqrstuvwxyz"

CodeOf(c) == Min({i \in 1..Len(CodePoints) : Ch(CodePoints, i) = c})

\* a < b for str: by the first character that differs, a proper prefix first
RECURSIVE StrLess(_, _)
StrLess(a, b) ==
    IF b = "" THEN FALSE
    ELSE IF a = "" THEN TRUE
    ELSE IF Ch(a, 1) = Ch(b, 1) THEN StrLess(SubSeq(a, 2, Len(a)), SubSeq(b, 2, Len(b)))
    ELSE CodeOf(Ch(a, 1)) < CodeOf(Ch(b, 1))

\* sorted(files)
RECURSIVE SortedList(_)
SortedList(S) ==
    IF S = {} THEN <<>>
    ELSE << CHOOSE x \in S : \A y \in S : x = y \/ StrLess(x, y) >>
         \o SortedList(S \ {CHOOSE x \in S : \A y \in S : x = y \/ StrLess(x, y)})

IndexOf(l, f) == Min({i \in 1..Len(l) : l[i] = f})

\* list.remove(f): l without the first f
Remove(l, f) == SubSeq(l, 1, IndexOf(l, f) - 1) \o SubSeq(l, IndexOf(l, f) + 1, Len(l))

\* list.insert(c, f), c counted from 0
Insert(l, c, f) == SubSeq(l, 1, c) \o << f >> \o SubSeq(l, c + 1, Len(l))

\* "intro" in f or "einleitung" in f or "1" in f
IsIntroduction(f) == Contains(f, "intro") \/ Contains(f, "einleitung") \/ Contains(f, "1")

\* "conclusion" in f
IsConclusion(f) == Contains(f, "conclusion")

\* for f in files: the loop from the element of index i (counted from 0) on,
\* over the list as the iterations before have left it
RECURSIVE Loop(_, _, _)
Loop(l, i, c) ==
    IF i >= Len(l) THEN l
    ELSE IF IsIntroduction(l[i + 1])
         THEN Loop(Insert(Remove(l, l[i + 1]), c, l[i + 1]), i + 1, c + 1)
    ELSE IF IsConclusion(l[i + 1])
         THEN Loop(Append(Remove(l, l[i + 1]), l[i + 1]), i + 1, c)
    ELSE Loop(l, i + 1, c)

sort_chapters(S) == Loop(SortedList(S), 0, 0)

\* _sort_chapters(files)
SortChapters ==
    /\ ~sorted
    /\ chapters' = sort_chapters(files)
    /\ sorted' = TRUE
    /\ UNCHANGED <<files, detexVars, mainVars>>

NextSort == SortChapters

-----------------------------------------------------------------------------
(* main                                                                    *)

\* the file system: a function from the paths that exist to their contents
Readable(p) == p \in DOMAIN fs

\* The comparison with <= in place of <.
WarnsAtMost(detexed, original) ==
    Len(detexed) * threshold.den <= Len(original) * threshold.num

\* len(detexed) < len(text)*threshold, the threshold being num/den
Warns(detexed, original) ==
    Len(detexed) * threshold.den < Len(original) * threshold.num

\* int(threshold*100)
Percent == (threshold.num * 100) \div threshold.den

\* f"Warning: Less than {int(threshold*100)}% of the content remains for file {fi}"
Warning(fi) ==
    "Warning: Less than " \o ToString(Percent)
      \o "% of the content remains for file " \o fi

\* The name made by cutting three characters instead of four.
FilenameKeepingDot(fi) ==
    (IF Len(fi) > 3 THEN SubSeq(fi, 1, Len(fi) - 3) ELSE "") \o "_betterdetex.txt"

\* fi[:-4] + "_betterdetex.txt"
Filename(fi) ==
    (IF Len(fi) > 4 THEN SubSeq(fi, 1, Len(fi) - 4) ELSE "") \o "_betterdetex.txt"

Read(fi, content)    == [op |-> "read", path |-> fi, text |-> content]
Printed(message)     == [op |-> "print", path |-> "", text |-> message]
Written(fi, content) == [op |-> "write", path |-> fi, text |-> content]

\* if type(paths) != list: paths = [paths]
MainStart ==
    /\ pc = "start"
    /\ paths' = IF arg.list THEN arg.items ELSE << arg.str >>
    /\ pc' = "loop"
    /\ UNCHANGED <<arg, threshold, idx, fs, log, detexVars, sortVars>>

\* what one iteration of the loop over paths does with the file fi
Iteration(fi, detexed) ==
    /\ log' = log \o << Read(fi, fs[fi]) >>
                  \o (IF Warns(detexed, fs[fi]) THEN << Printed(Warning(fi)) >> ELSE <<>>)
                  \o << Written(Filename(fi), detexed) >>
    /\ fs' = (Filename(fi) :> detexed) @@ fs

\* for fi in paths: one iteration, the file is there
MainIter ==
    /\ pc = "loop"
    /\ idx < Len(paths)
    /\ Readable(paths[idx + 1])
    /\ Iteration(paths[idx + 1], detex(fs[paths[idx + 1]]))
    /\ idx' = idx + 1
    /\ UNCHANGED <<arg, threshold, paths, pc, detexVars, sortVars>>

\* for fi in paths: open(fi) raises, the file is not there
MainRaise ==
    /\ pc = "loop"
    /\ idx < Len(paths)
    /\ ~Readable(paths[idx + 1])
    /\ pc' = "raised"
    /\ UNCHANGED <<arg, threshold, paths, idx, fs, log, detexVars, sortVars>>

\* the loop is over: main returns
MainReturn ==
    /\ pc = "loop"
    /\ idx = Len(paths)
    /\ pc' = "done"
    /\ UNCHANGED <<arg, threshold, paths, idx, fs, log, detexVars, sortVars>>

NextMain == MainStart \/ MainIter \/ MainRaise \/ MainReturn

-----------------------------------------------------------------------------
(* Comments                                                                *)

MaxCommentFrags == 4

CommentFragments == {"x", "y", "%", "\\%", "\n"}

InitComments ==
    /\ InitDetex(Sentences(CommentFragments, MaxCommentFrags))
    /\ IdleSort /\ IdleMain

SpecComments == InitComments /\ [][NextOnce]_vars

\* A "%" with no backslash before it starts a comment.
CommentStart(s, i) == Ch(s, i) = "%" /\ ~(i > 1 /\ Ch(s, i - 1) = "\\")

LineStart(s, i) == Max({k + 1 : k \in {k \in 1..i : Ch(s, k) = "\n"}} \cup {1})

\* whether position i of s is in a comment: at or after an unescaped "%" of its line
InComment(s, i) == \E k \in LineStart(s, i)..i : CommentStart(s, k)

\* s from position i on with every comment removed: from each unescaped
\* "%" to the end of its line, the line break kept
RECURSIVE UncommentedFrom(_, _)
UncommentedFrom(s, i) ==
    IF i > Len(s) THEN ""
    ELSE (IF InComment(s, i) THEN "" ELSE Ch(s, i)) \o UncommentedFrom(s, i + 1)

Uncommented(s) == UncommentedFrom(s, 1)

\* C3: after the comment removal (the first statement of detex) every line
\* that holds an unescaped "%" has lost that marker and all that follows it
\* on the line, has kept what precedes it, and has kept its line break; a
\* "%" with a backslash before it starts no comment.
C3_CommentsRemoved ==
    passes = 1 => steps[1] = Uncommented(text)

-----------------------------------------------------------------------------
(* Environments                                                            *)

MaxEnvFrags == 5

EnvFragments == {"\\begin{figure}", "\\begin{Figure}", "\\end{figure}", "z", "\n"}

InitEnvironments ==
    /\ InitDetex(Sentences(EnvFragments, MaxEnvFrags))
    /\ IdleSort /\ IdleMain

SpecEnvironments == InitEnvironments /\ [][NextOnce]_vars

\* the names of the environments that detex does not delete
KeptNames == {"quote", "quotation", "document", "otherlanguage", "refcontext", "refsection"}

\* str.lower()
RECURSIVE Lower(_)
Lower(s) == IF s = "" THEN "" ELSE Fold(Ch(s, 1), TRUE) \o Lower(SubSeq(s, 2, Len(s)))

\* the positions of the begin markers and of the end markers of s
Begins(s) == {i \in 1..Len(s) : At(s, i, "\\begin{")}
Ends(s)   == {i \in 1..Len(s) : At(s, i, "\\end{")}

Between(S, i, k) == {x \in S : i <= x /\ x <= k}

\* the begin marker at i and the end marker at j delimit an environment:
\* every environment opened between them is closed between them
Delimits(B, E, i, j) ==
    /\ i < j
    /\ \A k \in Between(B \cup E, i, j - 1) :
         Cardinality(Between(B, i, k)) > Cardinality(Between(E, i, k))
    /\ Cardinality(Between(B, i, j)) = Cardinality(Between(E, i, j))

\* the name of the begin or end marker of s at position i
MarkerName(s, i) ==
    SubSeq(s, Min({k \in i..Len(s) : Ch(s, k) = "{"}) + 1,
              Min({k \in i..Len(s) : Ch(s, k) = "}"}) - 1)

\* whether every z of s is between positions i and j
EnclosesContent(s, i, j) == \A k \in 1..Len(s) : Ch(s, k) = "z" => (i < k /\ k < j)

\* C1: when \begin{N} and \end{M}, N and M the same name up to letter case
\* and none of the kept names, delimit an environment of the input, the
\* output holds no begin or end marker and none of the enclosed content
\* (here: the letter z, which the input holds nowhere but in that
\* environment), also when the environment encloses another one of the
\* same name or spans several lines.
C1_EnvironmentsDeleted ==
    passes = 1 =>
      \A i \in Begins(text), j \in Ends(text) :
        ( /\ Delimits(Begins(text), Ends(text), i, j)
          /\ Lower(MarkerName(text, i)) = Lower(MarkerName(text, j))
          /\ Lower(MarkerName(text, i)) \notin KeptNames
          /\ EnclosesContent(text, i, j) )
        => /\ ~Contains(out, "\\begin{")
           /\ ~Contains(out, "\\end{")
           /\ ~Contains(out, "z")

-----------------------------------------------------------------------------
(* Inline commands                                                         *)

MaxInlineFrags == 5

InlineFragments == {"\\emph{", "\\footnote{", "}", "x", "x\ny"}

InitInline ==
    /\ InitDetex(Sentences(InlineFragments, MaxInlineFrags))
    /\ IdleSort /\ IdleMain

SpecInline == InitInline /\ [][NextOnce]_vars

\* to_replace as a set
UnwrapNames == {to_replace[k] : k \in 1..Len(to_replace)}

\* C4: when the input is P \C{T} S with C one of the commands of
\* to_replace and P, T and S markup-free (so the command is in no deleted
\* environment), the output holds T and holds neither the command token
\* nor a brace, also when T spans a line break.
C4_CommandsUnwrapped ==
    passes = 1 =>
      \A C \in UnwrapNames : \A i \in 1..Len(text), j \in 1..Len(text) :
        LET open == "\\" \o C \o "{"
            P    == Before(text, i)
            T    == SubSeq(text, i + Len(open), j - 1)
            S    == From(text, j + 1)
        IN  ( /\ At(text, i, open) /\ i + Len(open) <= j /\ Ch(text, j) = "}"
              /\ Plain(P) /\ Plain(T) /\ Plain(S) )
            => /\ Contains(out, T)
               /\ ~Contains(out, "\\" \o C)
               /\ ~Contains(out, "{")
               /\ ~Contains(out, "}")

-----------------------------------------------------------------------------
(* Residual command tokens                                                 *)

MaxTokenFrags == 4

TokenFragments == {"\\", "x", "A", "{", "}", "]", "\n"}

InitTokens ==
    /\ InitDetex(Sentences(TokenFragments, MaxTokenFrags))
    /\ IdleSort /\ IdleMain

SpecTokens == InitTokens /\ [][NextOnce]_vars

\* a backslash immediately followed by an ASCII letter
TokenAt(s, i) == Ch(s, i) = "\\" /\ i < Len(s) /\ Ch(s, i + 1) \in az \cup AZ

HasToken(s) == \E i \in 1..Len(s) : TokenAt(s, i)

HasLetter(s) == CharsOf(s) \cap (az \cup AZ) # {}

\* C10: the output of detex holds no backslash immediately followed by an
\* ASCII letter: there is none after the second residual-command deletion,
\* none after the brace/bracket cleanup and none after the line-break
\* collapsing.
C10_NoResidualToken ==
    passes = 1 => ~HasToken(steps[17]) /\ ~HasToken(steps[18]) /\ ~HasToken(out)

\* a text with a command token of which a backslash and a letter are left
C10_Witness ==
    passes = 1 /\ HasToken(text) /\ Contains(out, "\\") /\ HasLetter(out)

-----------------------------------------------------------------------------
(* detex applied to its own result                                         *)

MaxTwiceFrags == 4

TwiceFragments == {"x", "\n", "\n\n\n\n", "}", "%", "\\emph{"}

InitTwice ==
    /\ InitDetex(Sentences(TwiceFragments, MaxTwiceFrags))
    /\ IdleSort /\ IdleMain

SpecTwice == InitTwice /\ [][NextTwice]_vars

\* s without its whitespace
Squeezed(s) == Without(s, Whitespace)

\* the characters that a further call of detex can still act on
Residue == {"\\", "|", "{", "}", "]"}

\* C5 as stated: for every text t, detex(detex(t)) and detex(t) are equal
\* after whitespace is disregarded.
C5_SecondPassKeepsContent ==
    passes = 2 => Squeezed(out) = Squeezed(prev)

\* C5 for the texts that one call leaves without markup: when detex(t)
\* holds no backslash, vertical bar, brace or closing bracket, detex(detex(t))
\* and detex(t) are equal after whitespace is disregarded.
C5_SecondPassKeepsPlainContent ==
    (passes = 2 /\ CharsOf(prev) \cap Residue = {}) => Squeezed(out) = Squeezed(prev)

\* a command unwrapped by the first call, its text left by the second
C5_Witness ==
    /\ passes = 2
    /\ CharsOf(prev) \cap Residue = {}
    /\ Contains(text, "\\emph{x}")
    /\ ~Contains(text, "%")
    /\ Contains(prev, "x")
    /\ Contains(out, "x")

-----------------------------------------------------------------------------
(* Quote environments                                                      *)

MaxBody == 3

\* the texts around an environment and the texts in it
Pads == {"", "u", "\n"}
Bodies == Sentences({"z", "\n"}, MaxBody)

\* what an environment stands in: nothing, or an environment that detex deletes
Contexts == { <<"", "">>, <<"\\begin{figure}", "\\end{figure}">> }

QuoteMarkers ==
    { <<"\\begin{quote}", "\\end{quote}">>,
      <<"\\begin{quotation}", "\\end {quotation}">>,
      <<"\\begin{quote}", "\\end{quotation}">> }

QuoteTexts ==
    { c[1] \o P \o m[1] \o T \o m[2] \o S \o c[2] :
        c \in Contexts, P \in Pads, m \in QuoteMarkers, T \in Bodies, S \in Pads }

InitQuotes ==
    /\ InitDetex(QuoteTexts)
    /\ IdleSort /\ IdleMain

SpecQuotes == InitQuotes /\ [][NextOnce]_vars

QuoteNames == {to_preserve[k] : k \in 1..Len(to_preserve)}

\* the two forms of an end marker that detex accepts
EndMarkers(name) == {EndMarker(name), "\\end {" \o name \o "}"}

Positions(s, w) == {i \in 1..Len(s) : At(s, i, w)}

\* o is e, but for the three consecutive line breaks that detex makes one
KeptAs(o, e) ==
    /\ SameUpToLineBreaks(o, e)
    /\ ~Contains(e, "\n\n\n") => o = e

\* C2 as stated: when the input holds \begin{E} T \end{E}, E quote or
\* quotation and T markup-free, the output holds T (line breaks
\* disregarded) and neither marker.
C2_QuoteContentKept ==
    passes = 1 =>
      \A E \in QuoteNames : \A e \in EndMarkers(E) :
        \A i \in Positions(text, BeginMarker(E)), j \in Positions(text, e) :
          LET T == SubSeq(text, i + Len(BeginMarker(E)), j - 1)
          IN  (i + Len(BeginMarker(E)) <= j /\ Plain(T))
              => /\ Contains(Without(out, {"\n"}), Without(T, {"\n"}))
                 /\ ~Contains(out, BeginMarker(E))
                 /\ ~Contains(out, e)

\* C2 for a quote environment in markup-free text: when the input is
\* P \begin{E} T \end{E} S, E quote or quotation and P, T and S
\* markup-free, the text is P T S after the quote rewrite and still P T S
\* after the generic environment deletion, and the output is P T S with
\* three consecutive line breaks made one (so it holds T when P T S has no
\* three consecutive line breaks) and holds neither marker.
C2_QuotePreserved ==
    passes = 1 =>
      \A E \in QuoteNames : \A e \in EndMarkers(E) :
        \A i \in Positions(text, BeginMarker(E)), j \in Positions(text, e) :
          LET P == Before(text, i)
              T == SubSeq(text, i + Len(BeginMarker(E)), j - 1)
              S == From(text, j + Len(e))
          IN  (i + Len(BeginMarker(E)) <= j /\ Plain(P) /\ Plain(T) /\ Plain(S))
              => /\ steps[8] = P \o T \o S
                 /\ steps[9] = P \o T \o S
                 /\ KeptAs(out, P \o T \o S)
                 /\ ~Contains(out, BeginMarker(E))
                 /\ ~Contains(out, e)

\* a quotation of two lines in markup-free text
C2_Witness ==
    /\ passes = 1
    /\ text = "u\\begin{quotation}z\nz\\end {quotation}u"
    /\ steps[9] = "uz\nzu"
    /\ out = "uz\nzu"

-----------------------------------------------------------------------------
(* Transparent containers                                                  *)

ContainerNames == {openers[k] : k \in 1..Len(openers)}

\* what a container holds: text, then possibly a deleted environment and
\* more text
Inner == {"", "\\begin{figure}w\\end{figure}", "\\begin{figure}w\\end{figure}z"}

ContainerTexts ==
    { c[1] \o P \o BeginMarker(N) \o T \o X \o EndMarker(N) \o S \o c[2] :
        c \in Contexts, P \in {"", "u\n"}, N \in ContainerNames,
        T \in Bodies, X \in Inner, S \in {"", "u"} }

InitContainers ==
    /\ InitDetex(ContainerTexts)
    /\ IdleSort /\ IdleMain

SpecContainers == InitContainers /\ [][NextOnce]_vars

\* C9 as stated: when markup-free T is enclosed by \begin{N} and \end{N},
\* N a transparent container, the output holds T (line breaks disregarded)
\* and not the opening marker.
C9_ContainerContentKept ==
    passes = 1 =>
      \A N \in ContainerNames :
        \A i \in Positions(text, BeginMarker(N)), j \in Positions(text, EndMarker(N)) :
          LET T == SubSeq(text, i + Len(BeginMarker(N)), j - 1)
          IN  (i + Len(BeginMarker(N)) <= j /\ Plain(T))
              => /\ Contains(Without(out, {"\n"}), Without(T, {"\n"}))
                 /\ ~Contains(out, BeginMarker(N))

\* the texts that B is without one environment figure of markup-free
\* content, when B is markup-free around it; B itself when B is markup-free
Contents(B) ==
    (IF Plain(B) THEN {B} ELSE {})
    \cup { Before(B, a) \o From(B, b + Len(EndMarker("figure"))) :
             <<a, b>> \in { ab \in Positions(B, BeginMarker("figure"))
                                     \X Positions(B, EndMarker("figure")) :
                            /\ ab[1] + Len(BeginMarker("figure")) <= ab[2]
                            /\ Plain(Before(B, ab[1]))
                            /\ Plain(SubSeq(B, ab[1] + Len(BeginMarker("figure")), ab[2] - 1))
                            /\ Plain(From(B, ab[2] + Len(EndMarker("figure")))) } }

\* C9 for a container in markup-free text: when the input is
\* P \begin{N} B \end{N} S, N a transparent container, P and S markup-free
\* and B either markup-free text T or markup-free text around one deleted
\* environment (T being B without it), the generic environment deletion
\* leaves P T \end{N} S, and the output is P T S with three consecutive line
\* breaks made one.
C9_ContainerKept ==
    passes = 1 =>
      \A N \in ContainerNames :
        \A i \in Positions(text, BeginMarker(N)), j \in Positions(text, EndMarker(N)) :
          LET P == Before(text, i)
              B == SubSeq(text, i + Len(BeginMarker(N)), j - 1)
              S == From(text, j + Len(EndMarker(N)))
          IN  (i + Len(BeginMarker(N)) <= j /\ Plain(P) /\ Plain(S))
              => \A T \in Contents(B) :
                   /\ steps[9] = P \o T \o EndMarker(N) \o S
                   /\ KeptAs(out, P \o T \o S)

\* a container of two lines that holds a deleted environment
C9_Witness ==
    /\ passes = 1
    /\ text = "u\n\\begin{refsection}z\nz\\begin{figure}w\\end{figure}z\\end{refsection}u"
    /\ out = "u\nz\nzzu"

-----------------------------------------------------------------------------
(* The order of the chapters                                               *)

MaxFiles == 4

FileNames ==
    { "01.tex", "02.tex", "03.tex", "appendix.tex", "conclusion.tex",
      "einleitung.tex", "intro.tex", "summary.tex" }

InitSort ==
    /\ files \in {S \in SUBSET FileNames : Cardinality(S) <= MaxFiles}
    /\ chapters = <<>>
    /\ sorted = FALSE
    /\ IdleDetex /\ IdleMain

SpecSort == InitSort /\ [][NextSort]_vars

\* the three groups of file names
Introductions == {f \in files : IsIntroduction(f)}
Conclusions   == {f \in files : IsConclusion(f) /\ ~IsIntroduction(f)}
Middle        == files \ (Introductions \cup Conclusions)

Place(f) == IndexOf(chapters, f)

Alphabetical(S) == \A f \in S, g \in S : StrLess(f, g) => Place(f) < Place(g)

\* C6: _sort_chapters returns a permutation of the file names in which
\* every introduction comes before every file name that is neither an
\* introduction nor a conclusion, every conclusion comes after all other
\* file names, and the introductions and the middle group are each in
\* alphabetical order.
C6_ChaptersOrdered ==
    sorted =>
      /\ Len(chapters) = Cardinality(files)
      /\ {chapters[k] : k \in 1..Len(chapters)} = files
      /\ \A f \in Introductions, g \in Middle : Place(f) < Place(g)
      /\ \A f \in Conclusions, g \in files \ Conclusions : Place(g) < Place(f)
      /\ Alphabetical(Introductions)
      /\ Alphabetical(Middle)

-----------------------------------------------------------------------------
(* The files that main reads, warns about and writes                       *)

MaxPaths == 2

PathNames == {"a.tex", "b.tex", "c", "a_betterdetex.txt"}

FileContents == {"", "ab", "$$ab", "$$$ab"}

Thresholds == {[num |-> 1, den |-> 2], [num |-> 1, den |-> 8], [num |-> 3, den |-> 4]}

PathLists == UNION {[1..n -> PathNames] : n \in 0..MaxPaths}

InitMain ==
    /\ \/ \E l \in PathLists : arg = [list |-> TRUE, str |-> "", items |-> l]
       \/ \E p \in PathNames : arg = [list |-> FALSE, str |-> p, items |-> <<>>]
    /\ threshold \in Thresholds
    /\ \E a \in FileContents, b \in FileContents :
         fs = ("a.tex" :> a) @@ ("b.tex" :> b) @@ ("c" :> "\\emph{ab}")
    /\ paths = <<>>
    /\ idx = 0
    /\ log = <<>>
    /\ pc = "start"
    /\ IdleDetex /\ IdleSort

SpecMain == InitMain /\ [][NextMain]_vars

\* the positions of the log where a file is read
Reads == {k \in 1..Len(log) : log[k].op = "read"}

WarnedAt(k) == k < Len(log) /\ log[k + 1].op = "print"

RECURSIVE FileEvents(_)
FileEvents(l) ==
    IF l = <<>> THEN <<>>
    ELSE (IF Head(l).op = "print" THEN <<>> ELSE << Head(l) >>) \o FileEvents(Tail(l))

\* P with its last 4 characters replaced by "_betterdetex.txt"
IsOutputOf(name, P) ==
    /\ Len(name) = (IF Len(P) > 4 THEN Len(P) - 4 ELSE 0) + Len("_betterdetex.txt")
    /\ \A i \in 1..(Len(P) - 4) : Ch(name, i) = Ch(P, i)
    /\ At(name, Len(name) - Len("_betterdetex.txt") + 1, "_betterdetex.txt")

\* C8: given a list of paths, main processes them in list order: for the
\* k-th path P, as long as the paths before it were readable, it reads P
\* once and then writes once detex(what it read) to P with the last 4
\* characters replaced by "_betterdetex.txt", with a warning or without;
\* it stops before the end of the list only at a path that is not readable,
\* never because of a warning.
C8_EachPathReadThenWritten ==
    (arg.list /\ pc # "start") =>
      /\ paths = arg.items
      /\ idx <= Len(paths)
      /\ Len(FileEvents(log)) = 2 * idx
      /\ \A k \in 1..idx :
           /\ FileEvents(log)[2 * k - 1].op = "read"
           /\ FileEvents(log)[2 * k - 1].path = paths[k]
           /\ FileEvents(log)[2 * k].op = "write"
           /\ IsOutputOf(FileEvents(log)[2 * k].path, paths[k])
           /\ FileEvents(log)[2 * k].text = detex(FileEvents(log)[2 * k - 1].text)
      /\ \A P \in {paths[k] : k \in 1..idx} :
           Cardinality({m \in Reads : log[m].path = P})
             = Cardinality({k \in 1..idx : paths[k] = P})
      /\ idx > 0 => fs[log[Len(log)].path] = log[Len(log)].text
      /\ pc = "done" => idx = Len(paths)
      /\ pc = "raised" => idx < Len(paths) /\ paths[idx + 1] \notin DOMAIN fs

\* two files processed, the first one with a warning
C8_Witness ==
    /\ arg.list
    /\ pc = "done"
    /\ Len(paths) = 2
    /\ paths[1] # paths[2]
    /\ Len(log) >= 5
    /\ log[2].op = "print"
    /\ log[Len(log)].op = "write"

====
